---- MODULE Spec2Model ----
(***************************************************************************)
(* Model of the crawler's worker pool (crawler/crawler.py), its frontier   *)
(* (crawler/bucketset.py), the fetcher's retry wrapper                     *)
(* (crawler/httpxclient.py) and the robots.txt table (crawler/robots.py,   *)
(* crawler/http.py).                                                       *)
(*                                                                         *)
(* The workers are asyncio coroutines on one event loop: a coroutine runs  *)
(* alone until it suspends (a network request, the retry sleep, the wait   *)
(* on the condition).  `running` names the coroutine that holds the loop;  *)
(* a suspended coroutine resumes only when no coroutine is running.        *)
(***************************************************************************)
EXTENDS Integers, Sequences, FiniteSets, TLC

\* ------------------------------------------------------------------ bounds
NumWorkers == 2
MaxTicks == 1

\* ------------------------------------------------------------- the universe
Hosts == {"a.test", "b.test"}
URL(host, path) == [host |-> host, path |-> path]
URLs == {URL("a.test", "/x"), URL("a.test", "/y"), URL("b.test", "/x")}
NoURL == [host |-> "", path |-> ""]
Workers == 1..NumWorkers
NoWorker == NumWorkers + 1

\* httpx.URL.netloc, the key of the frontier buckets, of the in-flight hosts
\* and of the cooldown map
netloc(url) == url.host

OtherHost(h) == CHOOSE g \in Hosts : g # h

\* ------------------------------------------------------ bucketset.BucketSet
\* _dict: netloc -> set of URLs (a missing bucket is the empty bucket)
EmptyBucketSet == [k \in Hosts |-> {}]

BucketItems(bs) == UNION {bs[k] : k \in DOMAIN bs}

BucketAdd(bs, item) == [bs EXCEPT ![netloc(item)] = @ \cup {item}]

BucketDiscard(bs, item) == [bs EXCEPT ![netloc(item)] = @ \ {item}]

BucketUpdate(bs, items) == [k \in DOMAIN bs |-> bs[k] \cup {i \in items : netloc(i) = k}]

\* key_difference that ignores the keys
key_difference_all(bs, keys) == BucketItems(bs)

\* BucketSet.key_difference
key_difference(bs, keys) == UNION {bs[k] : k \in (DOMAIN bs) \ keys}

\* --------------------------------------------------------- Crawler helpers
\* _update_timeouts that drops every entry
update_timeouts_none(t, ctime) == [k \in {} |-> 0]

\* _update_timeouts: keep the entries that lie in the future
update_timeouts(t, ctime) == [k \in {h \in DOMAIN t : t[h] > ctime} |-> t[k]]

SetTimeout(t, k, v) == [h \in (DOMAIN t) \cup {k} |-> IF h = k THEN v ELSE t[h]]

\* {url.netloc for url in self._active_urls}
active_netlocs(active) == {netloc(u) : u \in active}

\* ------------------------------------------------------------ httpx.Response
is_success(status) == status \in 200..299

is_client_error(status) == status \in 400..499

\* httpx: a redirect status that carries a Location header
is_redirect(r) == r.status \in {301, 302, 303, 307, 308} /\ r.loc # "none"

\* ------------------------------------------------------- robots.RobotsFile
\* crawl_delay and request_rate are optional: {} is None, {v} is the value v
NoEntry ==
    [present |-> FALSE, mtime |-> 0, allow_all |-> FALSE, disallow_all |-> FALSE,
     disallow |-> {}, crawl_delay |-> {}, request_rate |-> {}]

\* RobotsFile.__init__: an empty parser whose mtime is the time of creation
RobotsFile(ctime) == [NoEntry EXCEPT !.present = TRUE, !.mtime = ctime]

\* The robots.txt bodies a host may serve: the paths disallowed for the user
\* agent "crawler", its Crawl-delay and its Request-rate
NoBody == [disallow |-> {}, crawl_delay |-> {}, request_rate |-> {}]

RobotsBodies ==
    { NoBody,
      [disallow |-> {"/y"}, crawl_delay |-> {2},
       request_rate |-> {[requests |-> 1, seconds |-> 3]}] }

RobotsStatuses == {200, 301, 401, 403, 404, 429, 500}

\* RobotsFile.parse with the client-error branch lost
parse_deny_4xx(entry, status, body, ctime) ==
    IF is_success(status)
    THEN [entry EXCEPT !.mtime = ctime, !.disallow = body.disallow,
                       !.crawl_delay = body.crawl_delay,
                       !.request_rate = body.request_rate]
    ELSE [entry EXCEPT !.disallow_all = TRUE]

\* RobotsFile.parse with the exception for 429 lost
parse_allow_429(entry, status, body, ctime) ==
    IF is_success(status)
    THEN [entry EXCEPT !.mtime = ctime, !.disallow = body.disallow,
                       !.crawl_delay = body.crawl_delay,
                       !.request_rate = body.request_rate]
    ELSE IF is_client_error(status)
    THEN [entry EXCEPT !.allow_all = TRUE]
    ELSE [entry EXCEPT !.disallow_all = TRUE]

\* RobotsFile.parse (the base class's parse stamps mtime and reads the rules)
parse(entry, status, body, ctime) ==
    IF is_success(status)
    THEN [entry EXCEPT !.mtime = ctime, !.disallow = body.disallow,
                       !.crawl_delay = body.crawl_delay,
                       !.request_rate = body.request_rate]
    ELSE IF is_client_error(status) /\ status # 429
    THEN [entry EXCEPT !.allow_all = TRUE]
    ELSE [entry EXCEPT !.disallow_all = TRUE]

RobotsTTL == 24 * 60 * 60

\* expired with `<=` for `<`
expired_at_ttl(entry, ctime) == entry.mtime + RobotsTTL <= ctime

\* RobotsFile.expired
expired(entry, ctime) == entry.mtime + RobotsTTL < ctime

\* RobotsFile.can_fetch: RobotFileParser.can_fetch for the user agent "crawler"
can_fetch(entry, url) ==
    IF entry.disallow_all THEN FALSE
    ELSE IF entry.allow_all THEN TRUE
    ELSE IF entry.mtime = 0 THEN FALSE
    ELSE url.path \notin entry.disallow

Max(a, b) == IF a >= b THEN a ELSE b

\* RobotsFile.timeout: time.time() + max(delay, 1 / rate)
timeout(entry, ctime) ==
    LET delay == IF entry.crawl_delay = {} THEN 0
                 ELSE CHOOSE d \in entry.crawl_delay : TRUE
        inv_rate == IF entry.request_rate = {} THEN 0
                    ELSE LET rate == CHOOSE r \in entry.request_rate : TRUE
                         IN  rate.seconds \div rate.requests
    IN  ctime + Max(delay, inv_rate)

\* What a call of timeout gives: a number, None, or an exception
Value(v) == [exc |-> "", none |-> FALSE, value |-> v]

NoneValue == [exc |-> "", none |-> TRUE, value |-> 0]

Raised(e) == [exc |-> e, none |-> FALSE, value |-> 0]

\* RobotsFile.timeout as a call: `rate.requests / rate.seconds` and
\* `1 / rate` divide by zero when the Request-rate has no seconds or no
\* requests
timeout_call(entry, ctime) ==
    IF /\ entry.request_rate # {}
       /\ \E r \in entry.request_rate : r.seconds = 0 \/ r.requests = 0
    THEN Raised("ZeroDivisionError")
    ELSE Value(timeout(entry, ctime))

\* RobotsFileTable.timeout(url) as crawler.py calls it: the host entry's
\* timeout, or None ({}) when it has neither a crawl delay nor a request rate
table_timeout(entry, ctime) ==
    IF timeout(entry, ctime) = ctime THEN {} ELSE {timeout(entry, ctime)}

\* ------------------------------------------------------------------ http.Pool
\* What one send() of the robots.txt request gives: a response, or an exception
TransportErrors == {"NetworkError", "TimeoutException", "SSLError"}

Raise(e) == [exc |-> e, status |-> 0, loc |-> "none", body |-> NoBody]

NoResponse == Raise("")

\* The body matters when the status is a success only
SendOutcomes ==
    {Raise(e) : e \in TransportErrors}
    \cup {[exc |-> "", status |-> s, loc |-> "none", body |-> NoBody] :
            s \in RobotsStatuses \ {200}}
    \cup {[exc |-> "", status |-> 200, loc |-> "none", body |-> b] : b \in RobotsBodies}
    \cup {[exc |-> "", status |-> 301, loc |-> l, body |-> NoBody] :
            l \in {"same", "other"}}

\* Pool.get: the results of the redirect loop with max_redirects left
RECURSIVE PoolGet(_)
PoolGet(max_redirects) ==
    UNION { IF r.exc # "" \/ ~is_redirect(r) THEN {r}
            ELSE IF max_redirects - 1 < 0 THEN {Raise("TooManyRedirects")}
            ELSE IF r.loc = "other" THEN {r}
            ELSE PoolGet(max_redirects - 1)
          : r \in SendOutcomes }

\* `max_redirects == 0` passed where Pool.get takes a number: True is 1, False 0
BoolAsInt(b) == IF b THEN 1 ELSE 0

\* http.HTTPError, the tuple _get catches in its second clause
HTTPError == TransportErrors \cup {"TooManyRedirects"}

\* ------------------------------------------------------------ page responses
PageStatuses == {200, 404}

\* The response of a HEAD or GET after the transport followed the redirects:
\* url is the final URL, ctype the Content-Type header, nofollow whether
\* X-Robots-Tag contains "nofollow"
PageResponses(urls) ==
    [status : PageStatuses, ctype : {"text/html", "image/png", "absent"},
     nofollow : BOOLEAN, url : urls]

\* _is_valid_response without the X-Robots-Tag test
is_valid_response_follow(r, method) ==
    LET content_type == IF r.ctype = "absent"
                        THEN (IF method = "HEAD" THEN "text/html" ELSE "")
                        ELSE r.ctype
    IN  /\ is_success(r.status)
        /\ content_type = "text/html"

\* crawler._is_valid_response
is_valid_response(r, method) ==
    LET content_type == IF r.ctype = "absent"
                        THEN (IF method = "HEAD" THEN "text/html" ELSE "")
                        ELSE r.ctype
    IN  /\ is_success(r.status)
        /\ content_type = "text/html"
        /\ ~r.nofollow

Langs == {"en", "de", "fr"}

\* ---------------------------------------------------------------- the state
VARIABLES
    pending_urls,  \* Crawler._pending_urls: the frontier, a BucketSet
    active_urls,   \* Crawler._active_urls: the URLs in flight
    timeouts,      \* Crawler._timeouts: netloc -> earliest next dispatch
    stopping,      \* Crawler._stopping
    table,         \* RobotsFileTable._table: host -> RobotsFile
    store,         \* the rows of the documents table, by url
    now,           \* time.time()
    ticks,         \* how often the clock has advanced
    running,       \* the coroutine that holds the event loop, or NoWorker
    pc,            \* where each worker coroutine stands
    wurl,          \* worker: `url`, the URL it dispatched
    whead,         \* worker: head_response.url, the URL its GET goes to
    rresp,         \* worker: `response`, what pool.get gave its _get
    rhost,         \* worker: the host whose robots.txt its _get requests
    rbudget,       \* worker: max_redirects of its innermost _get
    rframes,       \* worker: hosts of its outer _get frames awaiting the result
    fate,          \* per URL: what became of its last dispatch
    due,           \* per host: the cooldown its last admitted page asked for,
                   \* while that lies in the future (0 otherwise)
    \* one call of HTTPXClient.retrying_request
    method,        \* its argument `m`
    req_url,       \* its argument `url`
    tries,         \* how many rounds of its for loop have ended
    attempts,      \* what each `await self.request(m, url)` gave, in order
    sleeps,        \* how many `asyncio.sleep(0.5)` it has awaited
    fpc,           \* where the call stands
    ret,           \* what the call returned
    \* one GET response in Crawler._load_page
    get_response,  \* `get_response`, with its headers
    dom,           \* what parsing its content gives: "none", or the language
                   \* get_lang finds in the tree
    parsed,        \* whether etree.fromstring has been called on the content
    ppc,           \* where _load_page stands
    presult,       \* how _load_page ended for it
    \* the snapshot written at shutdown and read by the next process
    state_pkl,     \* the content of state.pkl (<<>> while there is no file)
    httpx_client,  \* Crawler._httpx_client, a handle
    db_conn,       \* Crawler._db_conn, a handle
    table_client,  \* RobotsFileTable._client, a handle
    proc,          \* the number of the process that runs main
    original,      \* the crawler as it was when the snapshot was taken
    spc,           \* where main stands
    \* one call of RobotsFile.timeout
    robots_file,   \* the RobotsFile it is called on
    cooldown,      \* what the call gave
    cpc,           \* where the call stands
    \* one URL normalized, and the result normalized again
    norm_fn,       \* which normalizer: "URL.normalize" or "normalize_url"
    norm_url,      \* the URL it is first called on
    norm_history,  \* the history argument of normalize_url
    norm_once,     \* the URL after one call
    norm_twice,    \* the URL after the second call
    npc,           \* how many calls were made
    \* one URL.from_string call
    uri,           \* the rfc3986.URIReference the string splits into
    from_string_result,  \* what the call gave
    upc,           \* where the call stands
    \* one run of _load_page
    load_url,      \* the URL dispatched
    load_entry,    \* the robots entry can_fetch answers from
    load_rows,     \* the urls of the documents table
    load_timeouts, \* Crawler._timeouts
    load_head,     \* what retrying_head returned
    load_get,      \* what retrying_get returned
    load_dom,      \* the parsed document: "none", or its language
    load_links,    \* the links _load_page returned
    lpc            \* where the run stands

\* The variables of the one retrying_request call
fetch_vars == <<method, req_url, tries, attempts, sleeps, fpc, ret>>

\* The variables of the one GET response
page_vars == <<get_response, dom, parsed, ppc, presult>>

\* The variables of the snapshot
snap_vars == <<state_pkl, httpx_client, db_conn, table_client, proc, original, spc>>

\* The variables of the one RobotsFile.timeout call
cooldown_vars == <<robots_file, cooldown, cpc>>

\* The variables of the one normalization
norm_vars == <<norm_fn, norm_url, norm_history, norm_once, norm_twice, npc>>

\* The variables of the one URL.from_string call
parse_vars == <<uri, from_string_result, upc>>

\* The variables the crawler's own steps leave alone
\* The variables of the one _load_page run
load_vars == <<load_url, load_entry, load_rows, load_timeouts, load_head, load_get,
               load_dom, load_links, lpc>>

aux_vars == <<fetch_vars, page_vars, snap_vars, cooldown_vars, norm_vars, parse_vars,
              load_vars>>

crawler_vars ==
    <<pending_urls, active_urls, timeouts, stopping, table, store, now, ticks,
      running, pc, wurl, whead, rresp, rhost, rbudget, rframes, fate, due>>

vars == <<crawler_vars, aux_vars>>

Seed == URL("a.test", "/x")

\* What one `await self.request(m, url)` gives: a response (exc is "") or an
\* exception
Outcome(exc, status) == [exc |-> exc, status |-> status]

\* The value None, and the place of a value not yet returned
None == Outcome("", 0)

NotReturned == Outcome("pending", 0)

\* No retrying_request call is looked at
FetchIdle ==
    /\ method = "" /\ req_url = NoURL /\ tries = 0 /\ attempts = <<>> /\ sleeps = 0
    /\ fpc = "idle" /\ ret = NotReturned

\* No GET response is looked at
PageIdle ==
    /\ get_response = [status |-> 0, ctype |-> "absent", nofollow |-> FALSE,
                       url |-> NoURL, clang |-> "absent"]
    /\ dom = "none" /\ parsed = FALSE /\ ppc = "idle" /\ presult = "pending"

\* A handle of a live resource: what it is and which process constructed it
Handle(kind, p) == [kind |-> kind, proc |-> p]

NoHandle == Handle("none", 0)

\* No snapshot is looked at
SnapIdle ==
    /\ state_pkl = <<>> /\ httpx_client = NoHandle /\ db_conn = NoHandle
    /\ table_client = NoHandle /\ proc = 0 /\ original = <<>> /\ spc = "idle"

\* No timeout call is looked at
CooldownIdle == robots_file = NoEntry /\ cooldown = NoneValue /\ cpc = "idle"

\* No normalization is looked at
NormIdle ==
    /\ norm_fn = "" /\ norm_url = <<>> /\ norm_history = {}
    /\ norm_once = <<>> /\ norm_twice = <<>> /\ npc = "idle"

\* No from_string call is looked at
ParseIdle == uri = <<>> /\ from_string_result = <<>> /\ upc = "idle"

\* No _load_page run is looked at
LoadIdle ==
    /\ load_url = NoURL /\ load_entry = NoEntry /\ load_rows = {}
    /\ load_timeouts = <<>> /\ load_head = <<>> /\ load_get = <<>>
    /\ load_dom = "" /\ load_links = {} /\ lpc = "idle"

AuxIdle ==
    /\ FetchIdle /\ PageIdle /\ SnapIdle /\ CooldownIdle /\ NormIdle /\ ParseIdle
    /\ LoadIdle

\* __main__.main with no state.pkl and an empty database: one seed URL, the
\* worker tasks created and not yet run
CrawlerInit ==
    /\ pending_urls = BucketAdd(EmptyBucketSet, Seed)
    /\ active_urls = {}
    /\ timeouts = [k \in {} |-> 0]
    /\ stopping = FALSE
    /\ table = [h \in Hosts |-> NoEntry]
    /\ store = {}
    /\ now = 1
    /\ ticks = 0
    /\ running = NoWorker
    /\ pc = [w \in Workers |-> "start"]
    /\ wurl = [w \in Workers |-> NoURL]
    /\ whead = [w \in Workers |-> NoURL]
    /\ rresp = [w \in Workers |-> NoResponse]
    /\ rhost = [w \in Workers |-> ""]
    /\ rbudget = [w \in Workers |-> 0]
    /\ rframes = [w \in Workers |-> {}]
    /\ fate = [u \in URLs |-> "new"]
    /\ due = [h \in Hosts |-> 0]

Init == CrawlerInit /\ AuxIdle

\* What a specification of one part leaves alone and how it starts
fetch_rest == <<crawler_vars, page_vars, snap_vars, cooldown_vars, norm_vars, parse_vars,
                load_vars>>

FetchRestInit ==
    /\ CrawlerInit /\ PageIdle /\ SnapIdle /\ CooldownIdle /\ NormIdle /\ ParseIdle
    /\ LoadIdle

page_rest == <<pending_urls, active_urls, timeouts, stopping, table, now, ticks,
               running, pc, wurl, whead, rresp, rhost, rbudget, rframes, fate, due,
               fetch_vars, snap_vars, cooldown_vars, norm_vars, parse_vars, load_vars>>

PageRestInit ==
    /\ CrawlerInit /\ FetchIdle /\ SnapIdle /\ CooldownIdle /\ NormIdle /\ ParseIdle
    /\ LoadIdle

snap_rest == <<store, now, ticks, running, pc, wurl, whead, rresp, rhost, rbudget,
               rframes, fate, due, fetch_vars, page_vars, cooldown_vars,
               norm_vars, parse_vars, load_vars>>

SnapRestInit ==
    /\ store = {}
    /\ now = 1
    /\ ticks = 0
    /\ running = NoWorker
    /\ pc = [w \in Workers |-> "done"]
    /\ wurl = [w \in Workers |-> NoURL]
    /\ whead = [w \in Workers |-> NoURL]
    /\ rresp = [w \in Workers |-> NoResponse]
    /\ rhost = [w \in Workers |-> ""]
    /\ rbudget = [w \in Workers |-> 0]
    /\ rframes = [w \in Workers |-> {}]
    /\ fate = [u \in URLs |-> "new"]
    /\ due = [h \in Hosts |-> 0]
    /\ FetchIdle /\ PageIdle /\ CooldownIdle /\ NormIdle /\ ParseIdle /\ LoadIdle

cooldown_rest == <<pending_urls, active_urls, timeouts, stopping, table, store,
                   now, ticks, running, pc, wurl, whead, rresp, rhost, rbudget,
                   rframes, fate, due, fetch_vars, page_vars, snap_vars,
                   norm_vars, parse_vars, load_vars>>

CooldownRestInit ==
    /\ pending_urls = BucketAdd(EmptyBucketSet, Seed)
    /\ active_urls = {}
    /\ timeouts = [k \in {} |-> 0]
    /\ stopping = FALSE
    /\ table = [h \in Hosts |-> NoEntry]
    /\ store = {}
    /\ ticks = 0
    /\ running = NoWorker
    /\ pc = [w \in Workers |-> "start"]
    /\ wurl = [w \in Workers |-> NoURL]
    /\ whead = [w \in Workers |-> NoURL]
    /\ rresp = [w \in Workers |-> NoResponse]
    /\ rhost = [w \in Workers |-> ""]
    /\ rbudget = [w \in Workers |-> 0]
    /\ rframes = [w \in Workers |-> {}]
    /\ fate = [u \in URLs |-> "new"]
    /\ due = [h \in Hosts |-> 0]
    /\ FetchIdle /\ PageIdle /\ SnapIdle /\ NormIdle /\ ParseIdle /\ LoadIdle

norm_rest == <<crawler_vars, fetch_vars, page_vars, snap_vars, cooldown_vars, parse_vars,
               load_vars>>

NormRestInit ==
    /\ CrawlerInit /\ FetchIdle /\ PageIdle /\ SnapIdle /\ CooldownIdle /\ ParseIdle
    /\ LoadIdle

parse_rest == <<crawler_vars, fetch_vars, page_vars, snap_vars, cooldown_vars, norm_vars,
                load_vars>>

ParseRestInit ==
    /\ CrawlerInit /\ FetchIdle /\ PageIdle /\ SnapIdle /\ CooldownIdle /\ NormIdle
    /\ LoadIdle

load_rest == <<crawler_vars, fetch_vars, page_vars, snap_vars, cooldown_vars, norm_vars,
               parse_vars>>

LoadRestInit ==
    /\ CrawlerInit /\ FetchIdle /\ PageIdle /\ SnapIdle /\ CooldownIdle /\ NormIdle
    /\ ParseIdle

\* notify_all that wakes nobody
notify_none(p) == p

\* asyncio.Condition.notify_all: every coroutine in wait() becomes runnable
notify_all(p) == [v \in Workers |-> IF p[v] = "waiting" THEN "notified" ELSE p[v]]

\* --------------------------------------------------------- Crawler.worker
\* The task is scheduled for the first time
Start(w) ==
    /\ UNCHANGED aux_vars
    /\ running = NoWorker
    /\ pc[w] = "start"
    /\ pc' = [pc EXCEPT ![w] = "outer"]
    /\ running' = w
    /\ UNCHANGED <<pending_urls, active_urls, timeouts, stopping, table, store, now,
                   ticks, wurl, whead, rresp, rhost, rbudget, rframes, fate, due>>

\* The outer loop as `while True:`
OuterNoStopTest(w) ==
    /\ UNCHANGED aux_vars
    /\ running = w
    /\ pc[w] = "outer"
    /\ pc' = [pc EXCEPT ![w] = "scan"]
    /\ running' = w
    /\ UNCHANGED <<pending_urls, active_urls, timeouts, stopping, table, store, now,
                   ticks, wurl, whead, rresp, rhost, rbudget, rframes, fate, due>>

\* `while not self._stopping:`; the coroutine ends when the flag is set
Outer(w) ==
    /\ UNCHANGED aux_vars
    /\ running = w
    /\ pc[w] = "outer"
    /\ IF stopping
       THEN pc' = [pc EXCEPT ![w] = "done"] /\ running' = NoWorker
       ELSE pc' = [pc EXCEPT ![w] = "scan"] /\ running' = w
    /\ UNCHANGED <<pending_urls, active_urls, timeouts, stopping, table, store, now,
                   ticks, wurl, whead, rresp, rhost, rbudget, rframes, fate, due>>

\* The URLs a scan may dispatch: the buckets of no in-flight netloc and of no
\* netloc with a timeout left after _update_timeouts
Eligible(pending, active, t, ctime) ==
    key_difference(pending,
                   active_netlocs(active) \cup DOMAIN update_timeouts(t, ctime))

\* The inner loop finds nothing to dispatch: wait on the condition
ScanWait(w) ==
    /\ UNCHANGED aux_vars
    /\ running = w
    /\ pc[w] = "scan"
    /\ Eligible(pending_urls, active_urls, timeouts, now) = {}
    /\ timeouts' = update_timeouts(timeouts, now)
    /\ pc' = [pc EXCEPT ![w] = "waiting"]
    /\ running' = NoWorker
    /\ UNCHANGED <<pending_urls, active_urls, stopping, table, store, now, ticks,
                   wurl, whead, rresp, rhost, rbudget, rframes, fate, due>>

\* A dispatch without `self._pending_urls.remove(url)`
DispatchKeepPending(w) ==
    /\ UNCHANGED aux_vars
    /\ running = w
    /\ pc[w] = "scan"
    /\ \E url \in Eligible(pending_urls, active_urls, timeouts, now) :
        /\ timeouts' = update_timeouts(timeouts, now)
        /\ pending_urls' = pending_urls
        /\ active_urls' = active_urls \cup {url}
        /\ wurl' = [wurl EXCEPT ![w] = url]
        /\ fate' = [fate EXCEPT ![url] = "inflight"]
    /\ pc' = [pc EXCEPT ![w] = "load"]
    /\ UNCHANGED <<stopping, table, store, now, ticks, running, whead, rresp,
                   rhost, rbudget, rframes, due>>

\* urls.pop(), remove it from the frontier, add it to the in-flight set, and
\* enter _load_page
Dispatch(w) ==
    /\ UNCHANGED aux_vars
    /\ running = w
    /\ pc[w] = "scan"
    /\ \E url \in Eligible(pending_urls, active_urls, timeouts, now) :
        /\ timeouts' = update_timeouts(timeouts, now)
        /\ pending_urls' = BucketDiscard(pending_urls, url)
        /\ active_urls' = active_urls \cup {url}
        /\ wurl' = [wurl EXCEPT ![w] = url]
        /\ fate' = [fate EXCEPT ![url] = "inflight"]
    /\ pc' = [pc EXCEPT ![w] = "load"]
    /\ UNCHANGED <<stopping, table, store, now, ticks, running, whead, rresp,
                   rhost, rbudget, rframes, due>>

\* The coroutine resumes from condition.wait()
Wake(w) ==
    /\ UNCHANGED aux_vars
    /\ running = NoWorker
    /\ pc[w] = "notified"
    /\ IF stopping
       THEN pc' = [pc EXCEPT ![w] = "done"] /\ running' = NoWorker
       ELSE pc' = [pc EXCEPT ![w] = "scan"] /\ running' = w
    /\ UNCHANGED <<pending_urls, active_urls, timeouts, stopping, table, store, now,
                   ticks, wurl, whead, rresp, rhost, rbudget, rframes, fate, due>>

\* The end of the loop body without `self._active_urls.remove(url)`
FinishPageNoRemove(w, links, outcome) ==
    /\ pending_urls' = BucketUpdate(pending_urls, links \ active_urls)
    /\ active_urls' = active_urls
    /\ pc' = [notify_all(pc) EXCEPT ![w] = "outer"]
    /\ running' = w
    /\ fate' = [fate EXCEPT ![wurl[w]] = outcome]
    /\ wurl' = [wurl EXCEPT ![w] = NoURL]
    /\ whead' = [whead EXCEPT ![w] = NoURL]

\* _load_page has returned `links`: merge them, release the URL, notify
FinishPage(w, links, outcome) ==
    /\ pending_urls' = BucketUpdate(pending_urls, links \ active_urls)
    /\ active_urls' = active_urls \ {wurl[w]}
    /\ pc' = [notify_all(pc) EXCEPT ![w] = "outer"]
    /\ running' = w
    /\ fate' = [fate EXCEPT ![wurl[w]] = outcome]
    /\ wurl' = [wurl EXCEPT ![w] = NoURL]
    /\ whead' = [whead EXCEPT ![w] = NoURL]

\* Crawler.stop
Stop ==
    /\ UNCHANGED aux_vars
    /\ running = NoWorker
    /\ ~stopping
    /\ stopping' = TRUE
    /\ pc' = notify_all(pc)
    /\ UNCHANGED <<pending_urls, active_urls, timeouts, table, store, now, ticks,
                   running, wurl, whead, rresp, rhost, rbudget, rframes, fate, due>>

\* Time passes while the coroutines are suspended: a second, the lifetime of
\* a robots.txt entry, or a second more than that
Tick ==
    /\ UNCHANGED aux_vars
    /\ running = NoWorker
    /\ ticks < MaxTicks
    /\ \E d \in {1, RobotsTTL, RobotsTTL + 1} : now' = now + d
    /\ ticks' = ticks + 1
    /\ due' = [h \in Hosts |-> IF due[h] <= now' THEN 0 ELSE due[h]]
    /\ UNCHANGED <<pending_urls, active_urls, timeouts, stopping, table, store,
                   running, pc, wurl, whead, rresp, rhost, rbudget, rframes, fate>>

\* ------------------------------------------------------ Crawler._load_page
\* _exists that never finds a row
exists_never(rows, url) == FALSE

\* _exists: a row of the documents table has this url
exists(rows, url) == url \in rows

\* The insert into the documents table; url is the primary key
insert(rows, url) == rows \cup {url}

\* The rest of _load_page once can_fetch has answered from `entry`: a denied
\* URL returns no links, an allowed one has its HEAD request sent
AfterCanFetch(w, entry) ==
    IF can_fetch(entry, wurl[w])
    THEN /\ pc' = [pc EXCEPT ![w] = "head_io"]
         /\ running' = NoWorker
         /\ LET t == table_timeout(entry, now) IN
            due' = [due EXCEPT ![netloc(wurl[w])] =
                        IF t = {} THEN 0 ELSE CHOOSE v \in t : TRUE]
         /\ UNCHANGED <<pending_urls, active_urls, fate, wurl, whead>>
    ELSE /\ FinishPage(w, {}, "skipped")
         /\ UNCHANGED due

DEFAULT_MAX_REDIRECTS == 5

\* can_fetch, the entry of the URL's host being cached and not expired
RobotsCached(w) ==
    /\ UNCHANGED aux_vars
    /\ running = w
    /\ pc[w] = "load"
    /\ LET h == netloc(wurl[w]) IN
        /\ table[h].present
        /\ ~expired(table[h], now)
        /\ AfterCanFetch(w, table[h])
    /\ UNCHANGED <<timeouts, stopping, table, store, now, ticks, rresp, rhost,
                   rbudget, rframes>>

\* can_fetch, the entry missing or expired: RobotsFileTable._get puts a new
\* RobotsFile in the table and requests /robots.txt
RobotsLoad(w) ==
    /\ UNCHANGED aux_vars
    /\ running = w
    /\ pc[w] = "load"
    /\ LET h == netloc(wurl[w]) IN
        /\ ~(table[h].present /\ ~expired(table[h], now))
        /\ table' = [table EXCEPT ![h] = RobotsFile(now)]
        /\ rhost' = [rhost EXCEPT ![w] = h]
    /\ rbudget' = [rbudget EXCEPT ![w] = DEFAULT_MAX_REDIRECTS]
    /\ rframes' = [rframes EXCEPT ![w] = {}]
    /\ pc' = [pc EXCEPT ![w] = "robots_io"]
    /\ running' = NoWorker
    /\ UNCHANGED <<pending_urls, active_urls, timeouts, stopping, store, now, ticks,
                   wurl, whead, rresp, fate, due>>

\* _get returns `entry` through all its frames; _load_page goes on
RobotsReturn(w, entry) ==
    /\ table' = [h \in Hosts |-> IF h \in rframes[w] \cup {rhost[w]}
                                 THEN entry ELSE table[h]]
    /\ rhost' = [rhost EXCEPT ![w] = ""]
    /\ rbudget' = [rbudget EXCEPT ![w] = 0]
    /\ rframes' = [rframes EXCEPT ![w] = {}]
    /\ AfterCanFetch(w, entry)

\* The except clauses of _get, in their order
on_error(entry, exc) ==
    IF exc \in {"InvalidURLError", "TooManyRedirects"}
    THEN [entry EXCEPT !.allow_all = TRUE]
    ELSE [entry EXCEPT !.disallow_all = TRUE]

\* `response = await pool.get(url, max_redirects == 0)`: the coroutine resumes
\* with a response or with an exception
RobotsReply(w) ==
    /\ UNCHANGED aux_vars
    /\ running = NoWorker
    /\ pc[w] = "robots_io"
    /\ \E r \in PoolGet(BoolAsInt(rbudget[w] = 0)) :
        rresp' = [rresp EXCEPT ![w] = r]
    /\ pc' = [pc EXCEPT ![w] = "robots_got"]
    /\ running' = w
    /\ UNCHANGED <<pending_urls, active_urls, timeouts, stopping, table, store, now,
                   ticks, wurl, whead, rhost, rbudget, rframes, fate, due>>

\* What _get does with it: an exception sets the policy, a redirect to
\* another netloc goes into _get again for that netloc, any other response
\* is parsed
RobotsHandle(w) ==
    /\ UNCHANGED aux_vars
    /\ running = w
    /\ pc[w] = "robots_got"
    /\ rresp' = [rresp EXCEPT ![w] = NoResponse]
    /\ LET r == rresp[w]
           new == OtherHost(rhost[w])
       IN  IF r.exc # ""
           THEN RobotsReturn(w, on_error(table[rhost[w]], r.exc))
           ELSE IF ~is_redirect(r)
           THEN RobotsReturn(w, parse(table[rhost[w]], r.status, r.body, now))
           ELSE IF rbudget[w] - 1 < 0
           THEN \* assert max_redirects >= 0
                /\ pc' = [pc EXCEPT ![w] = "assertion_error"]
                /\ running' = NoWorker
                /\ UNCHANGED <<pending_urls, active_urls, table, wurl, whead,
                               rhost, rbudget, rframes, fate, due>>
           ELSE IF table[new].present /\ ~expired(table[new], now)
           THEN RobotsReturn(w, table[new])
           ELSE /\ table' = [table EXCEPT ![new] = RobotsFile(now)]
                /\ rframes' = [rframes EXCEPT ![w] = @ \cup {rhost[w]}]
                /\ rhost' = [rhost EXCEPT ![w] = new]
                /\ rbudget' = [rbudget EXCEPT ![w] = @ - 1]
                /\ pc' = [pc EXCEPT ![w] = "robots_io"]
                /\ running' = NoWorker
                /\ UNCHANGED <<pending_urls, active_urls, wurl, whead, fate, due>>
    /\ UNCHANGED <<timeouts, stopping, store, now, ticks>>

\* The HEAD response: skip the page, or record the timeout and send the GET
HeadResponse(w) ==
    /\ UNCHANGED aux_vars
    /\ running = NoWorker
    /\ pc[w] = "head_io"
    /\ \E r \in PageResponses(URLs) :
        IF ~is_valid_response(r, "HEAD") \/ exists(store, r.url)
        THEN /\ FinishPage(w, {}, "skipped")
             /\ UNCHANGED timeouts
        ELSE /\ LET t == table_timeout(table[netloc(wurl[w])], now) IN
                timeouts' = IF t = {} THEN timeouts
                            ELSE SetTimeout(timeouts, netloc(r.url),
                                            CHOOSE v \in t : TRUE)
             /\ whead' = [whead EXCEPT ![w] = r.url]
             /\ pc' = [pc EXCEPT ![w] = "get_io"]
             /\ UNCHANGED <<pending_urls, active_urls, running, wurl, fate>>
    /\ UNCHANGED <<stopping, table, store, now, ticks, rresp, rhost, rbudget, rframes,
                   due>>

\* The GET response with the store asked before the request was awaited,
\* not after
GetResponseNoRecheck(w) ==
    /\ UNCHANGED aux_vars
    /\ running = NoWorker
    /\ pc[w] = "get_io"
    /\ \E r \in PageResponses(URLs) :
        IF ~is_valid_response(r, "GET")
        THEN FinishPage(w, {}, "skipped") /\ UNCHANGED store
        ELSE \E dom_is_none \in BOOLEAN :
             IF dom_is_none
             THEN FinishPage(w, {}, "skipped") /\ UNCHANGED store
             ELSE \E lang \in Langs :
                  IF lang \notin {"de", "en"}
                  THEN FinishPage(w, {}, "skipped") /\ UNCHANGED store
                  ELSE IF r.url \in store
                  THEN /\ pc' = [pc EXCEPT ![w] = "integrity_error"]
                       /\ UNCHANGED <<pending_urls, active_urls, store, running,
                                      wurl, whead, fate>>
                  ELSE \E links \in SUBSET URLs :
                       /\ store' = insert(store, r.url)
                       /\ FinishPage(w, links, "stored")
    /\ UNCHANGED <<timeouts, stopping, table, now, ticks, rresp, rhost, rbudget,
                   rframes, due>>

\* The GET response: skip the page, or parse it, store it and return its
\* links.  An insert for a url that has a row violates the primary key: the
\* exception ends the worker.
GetResponse(w) ==
    /\ UNCHANGED aux_vars
    /\ running = NoWorker
    /\ pc[w] = "get_io"
    /\ \E r \in PageResponses(URLs) :
        IF ~is_valid_response(r, "GET") \/ exists(store, r.url)
        THEN FinishPage(w, {}, "skipped") /\ UNCHANGED store
        ELSE \E dom_is_none \in BOOLEAN :
             IF dom_is_none
             THEN FinishPage(w, {}, "skipped") /\ UNCHANGED store
             ELSE \E lang \in Langs :
                  IF lang \notin {"de", "en"}
                  THEN FinishPage(w, {}, "skipped") /\ UNCHANGED store
                  ELSE IF r.url \in store
                  THEN /\ pc' = [pc EXCEPT ![w] = "integrity_error"]
                       /\ UNCHANGED <<pending_urls, active_urls, store, running,
                                      wurl, whead, fate>>
                  ELSE \E links \in SUBSET URLs :
                       /\ store' = insert(store, r.url)
                       /\ FinishPage(w, links, "stored")
    /\ UNCHANGED <<timeouts, stopping, table, now, ticks, rresp, rhost, rbudget,
                   rframes, due>>

\* ------------------------------------------ HTTPXClient.retrying_request
\* retrying_request returned None (a fatal error, or the tries used up):
\* _load_page returns no links
RequestFailed(w) ==
    /\ UNCHANGED aux_vars
    /\ running = NoWorker
    /\ pc[w] \in {"head_io", "get_io"}
    /\ FinishPage(w, {}, "skipped")
    /\ UNCHANGED <<timeouts, stopping, table, store, now, ticks, rresp, rhost,
                   rbudget, rframes, due>>

\* ------------------------------------------------------ the specification
Next ==
    \/ \E w \in Workers : Start(w)
    \/ \E w \in Workers : Outer(w)
    \/ \E w \in Workers : ScanWait(w)
    \/ \E w \in Workers : Dispatch(w)
    \/ \E w \in Workers : Wake(w)
    \/ \E w \in Workers : RobotsCached(w)
    \/ \E w \in Workers : RobotsLoad(w)
    \/ \E w \in Workers : RobotsReply(w)
    \/ \E w \in Workers : RobotsHandle(w)
    \/ \E w \in Workers : HeadResponse(w)
    \/ \E w \in Workers : GetResponse(w)
    \/ \E w \in Workers : RequestFailed(w)
    \/ Stop
    \/ Tick

Spec == Init /\ [][Next]_vars

\* The steps of one worker coroutine
WorkerNext(w) ==
    \/ Start(w) \/ Outer(w) \/ ScanWait(w) \/ Dispatch(w) \/ Wake(w)
    \/ RobotsCached(w) \/ RobotsLoad(w) \/ RobotsReply(w) \/ RobotsHandle(w)
    \/ HeadResponse(w) \/ GetResponse(w) \/ RequestFailed(w)

\* The crawler with the clock standing still
NextUntimed == (\E w \in Workers : WorkerNext(w)) \/ Stop

\* The event loop runs every coroutine that is ready, and every outstanding
\* request ends (with a response or with None)
FairSpec ==
    Init /\ [][NextUntimed]_vars /\ \A w \in Workers : SF_vars(WorkerNext(w))

\* The crawler when stop() is never called
NextNoStop == (\E w \in Workers : WorkerNext(w)) \/ Tick

\* The event loop runs every coroutine that is ready, every outstanding
\* request ends, and time passes
ProgressSpec ==
    /\ Init /\ [][NextNoStop]_vars
    /\ \A w \in Workers : SF_vars(WorkerNext(w))
    /\ WF_vars(Tick)

\* -------------------------------- HTTPXClient.retrying_request, on its own
MAX_RETRIES == 2

\* The exceptions of the first except clause, of the second, and one that
\* neither names
Transient == {"NetworkError", "ProtocolError", "TimeoutException"}

Fatal == {"SSLError", "UnicodeEncodeError", "DecodingError", "TooManyRedirects"}

Uncaught == {"UnsupportedProtocol"}

RequestOutcomes ==
    {Outcome("", st) : st \in {200, 404, 500}}
    \cup {Outcome(e, 0) : e \in Transient \cup Fatal \cup Uncaught}

\* retrying_head or retrying_get is called for some URL
FetchInit ==
    /\ method \in {"HEAD", "GET"}
    /\ req_url \in URLs
    /\ tries = 0 /\ attempts = <<>> /\ sleeps = 0
    /\ fpc = "loop" /\ ret = NotReturned

\* The for loop without its end
FetchLoopNoBudget ==
    /\ fpc = "loop"
    /\ fpc' = "request"
    /\ UNCHANGED <<method, req_url, tries, attempts, sleeps, ret, fetch_rest>>

\* `for _ in range(self._MAX_RETRIES):` and what follows the loop
FetchLoop ==
    /\ fpc = "loop"
    /\ IF tries < MAX_RETRIES
       THEN fpc' = "request" /\ ret' = ret
       ELSE fpc' = "returned" /\ ret' = None
    /\ UNCHANGED <<method, req_url, tries, attempts, sleeps, fetch_rest>>

\* The request with the second except clause merged into the first
FetchRequestRetryAll ==
    /\ fpc = "request"
    /\ \E o \in RequestOutcomes :
        /\ attempts' = Append(attempts, o)
        /\ IF o.exc = "" THEN fpc' = "returned" /\ ret' = o
           ELSE IF o.exc \in Transient \cup Fatal THEN fpc' = "sleep" /\ ret' = ret
           ELSE fpc' = "raised" /\ ret' = ret
    /\ UNCHANGED <<method, req_url, tries, sleeps, fetch_rest>>

\* `return await self.request(m, url)` and the except clauses
FetchRequest ==
    /\ fpc = "request"
    /\ \E o \in RequestOutcomes :
        /\ attempts' = Append(attempts, o)
        /\ IF o.exc = "" THEN fpc' = "returned" /\ ret' = o
           ELSE IF o.exc \in Transient THEN fpc' = "sleep" /\ ret' = ret
           ELSE IF o.exc \in Fatal THEN fpc' = "returned" /\ ret' = None
           ELSE fpc' = "raised" /\ ret' = ret
    /\ UNCHANGED <<method, req_url, tries, sleeps, fetch_rest>>

\* `await asyncio.sleep(0.5)`, then the next round of the loop
FetchSleep ==
    /\ fpc = "sleep"
    /\ sleeps' = sleeps + 1
    /\ tries' = tries + 1
    /\ fpc' = "loop"
    /\ UNCHANGED <<method, req_url, attempts, ret, fetch_rest>>

FetchNext == FetchLoop \/ FetchRequest \/ FetchSleep

FetchSpecInit == FetchRestInit /\ FetchInit

FetchSpec == FetchSpecInit /\ [][FetchNext]_vars

\* ------------------------------------- _load_page on one GET response
\* The values of the Content-Language header
ContentLanguages == {"absent", "en", "de", "fr", "fr, en"}

\* A 2xx or 404 response to the GET, with its Content-Language header
GetResponses ==
    [status : PageStatuses, ctype : {"text/html", "image/png", "absent"},
     nofollow : BOOLEAN, url : URLs, clang : ContentLanguages]

\* retrying_get has returned a response
PageInit ==
    /\ get_response \in GetResponses
    /\ dom \in {"none"} \cup Langs
    /\ parsed = FALSE /\ ppc = "guard" /\ presult = "pending"

\* `not _is_valid_response(get_response) or self._exists(get_response.url)`
PageGuard ==
    /\ ppc = "guard"
    /\ IF ~is_valid_response(get_response, "GET") \/ exists(store, get_response.url)
       THEN ppc' = "done" /\ presult' = "skipped"
       ELSE ppc' = "parse" /\ presult' = presult
    /\ UNCHANGED <<get_response, dom, parsed, store, page_rest>>

\* `dom = etree.fromstring(...)` and `if dom is None`
PageParse ==
    /\ ppc = "parse"
    /\ parsed' = TRUE
    /\ IF dom = "none"
       THEN ppc' = "done" /\ presult' = "skipped"
       ELSE ppc' = "lang" /\ presult' = presult
    /\ UNCHANGED <<get_response, dom, store, page_rest>>

\* `if get_lang(dom) not in {"de", "en"}`, else the insert
PageStore ==
    /\ ppc = "lang"
    /\ IF dom \notin {"de", "en"}
       THEN presult' = "skipped" /\ store' = store
       ELSE presult' = "stored" /\ store' = insert(store, get_response.url)
    /\ ppc' = "done"
    /\ UNCHANGED <<get_response, dom, parsed, page_rest>>

PageNext == PageGuard \/ PageParse \/ PageStore

PageSpecInit == PageRestInit /\ PageInit

PageSpec == PageSpecInit /\ [][PageNext]_vars

\* ------------------------------- the snapshot: __getstate__, __setstate__
\* The frontiers, cooldown maps and robots tables a crawler may hold when its
\* workers have returned
SnapFrontiers == {bs \in [Hosts -> SUBSET URLs] : \A k \in Hosts : \A u \in bs[k] : netloc(u) = k}

SnapTimeouts ==
    {[k \in {} |-> 0], [k \in {"a.test"} |-> 4], [k \in Hosts |-> 3]}

SnapEntries ==
    {NoEntry,
     parse(RobotsFile(1), 404, NoBody, 1),
     parse(RobotsFile(1), 200, [disallow |-> {"/y"}, crawl_delay |-> {2},
                                request_rate |-> {}], 1)}

\* Crawler.__init__: a new connection, a new transport, a new robots table
\* that uses it, nothing pending, nothing in flight, not stopping
CrawlerNew(p) ==
    [db_conn |-> Handle("db_conn", p),
     httpx_client |-> Handle("HTTPXClient", p),
     table_client |-> Handle("HTTPXClient", p),
     table |-> [h \in Hosts |-> NoEntry],
     pending_urls |-> EmptyBucketSet,
     active_urls |-> {},
     timeouts |-> [k \in {} |-> 0],
     stopping |-> FALSE]

\* The crawler object the variables hold
Self ==
    [db_conn |-> db_conn, httpx_client |-> httpx_client,
     table_client |-> table_client, table |-> table,
     pending_urls |-> pending_urls, active_urls |-> active_urls,
     timeouts |-> timeouts, stopping |-> stopping]

\* The first process has run its workers to their end.  A worker that an
\* exception ended has left its URL in _active_urls.
SnapInit ==
    /\ proc = 1
    /\ db_conn = Handle("db_conn", 1)
    /\ httpx_client = Handle("HTTPXClient", 1)
    /\ table_client = Handle("HTTPXClient", 1)
    /\ pending_urls \in SnapFrontiers
    /\ timeouts \in SnapTimeouts
    /\ table \in [Hosts -> SnapEntries]
    /\ active_urls \in {{}, {Seed}}
    /\ stopping = TRUE
    /\ state_pkl = <<>> /\ original = <<>> /\ spc = "shutdown"

\* _CrawlerState(robots_file_table, pending_urls, timeouts): the fields by
\* position; the table is the object with its _client
getstate(c) ==
    <<[entries |-> c.table, client |-> c.table_client], c.pending_urls, c.timeouts>>

\* pickle.dump of the state: the robots table is written without its transport
dumps(state) == <<[state[1] EXCEPT !.client = NoHandle], state[2], state[3]>>

\* pickle.load of the file
loads(file) == file

\* __setstate__ that leaves the new crawler's empty cooldown map in place
setstate_no_timeouts(c, state) ==
    [c EXCEPT !.table_client = c.httpx_client,
              !.table = state[1].entries,
              !.pending_urls = state[2]]

\* __setstate__ on the crawler that __init__ has made
setstate(c, state) ==
    [c EXCEPT !.table_client = c.httpx_client,
              !.table = state[1].entries,
              !.pending_urls = state[2],
              !.timeouts = state[3]]

\* `pickle.dump(crawler, file)` at the end of main; __getstate__ refuses
\* while a URL is in flight
SnapDump ==
    /\ spc = "shutdown"
    /\ IF active_urls # {}
       THEN spc' = "runtime_error" /\ UNCHANGED <<state_pkl, original>>
       ELSE /\ state_pkl' = dumps(getstate(Self))
            /\ original' = <<Self>>
            /\ spc' = "dumped"
    /\ UNCHANGED <<pending_urls, active_urls, timeouts, stopping, table,
                   httpx_client, db_conn, table_client, proc, snap_rest>>

\* The next process: `crawler = pickle.load(file)` makes an object and calls
\* its __setstate__, which calls __init__ first
SnapLoad ==
    /\ spc = "dumped"
    /\ proc' = proc + 1
    /\ LET c == setstate(CrawlerNew(proc + 1), loads(state_pkl)) IN
        /\ db_conn' = c.db_conn
        /\ httpx_client' = c.httpx_client
        /\ table_client' = c.table_client
        /\ table' = c.table
        /\ pending_urls' = c.pending_urls
        /\ active_urls' = c.active_urls
        /\ timeouts' = c.timeouts
        /\ stopping' = c.stopping
    /\ spc' = "loaded"
    /\ UNCHANGED <<state_pkl, original, snap_rest>>

SnapNext == SnapDump \/ SnapLoad

SnapSpecInit == SnapRestInit /\ SnapInit

SnapSpec == SnapSpecInit /\ [][SnapNext]_vars

\* ----------------------------------------- RobotsFile.timeout, on its own
\* The Crawl-delay and Request-rate lines a robots.txt may carry for the
\* user agent: absent, zero, or a number (rates whose seconds per request
\* are whole)
CrawlDelays == {{}, {0}, {2}, {5}}

RequestRates ==
    {{}} \cup {{[requests |-> r, seconds |-> sec]} :
                 <<r, sec>> \in {<<0, 1>>, <<1, 0>>, <<1, 1>>, <<1, 3>>, <<2, 4>>, <<1, 7>>}}

Clock == {1, 10, 100}

\* timeout is called on a parsed RobotsFile
CooldownInit ==
    /\ now \in Clock
    /\ \E d \in CrawlDelays, r \in RequestRates :
        robots_file = [RobotsFile(1) EXCEPT !.crawl_delay = d, !.request_rate = r]
    /\ cooldown = NoneValue
    /\ cpc = "call"

CooldownCall ==
    /\ cpc = "call"
    /\ cooldown' = timeout_call(robots_file, now)
    /\ cpc' = "done"
    /\ UNCHANGED <<robots_file, cooldown_rest>>

CooldownNext == CooldownCall

CooldownSpecInit == CooldownRestInit /\ CooldownInit

CooldownSpec == CooldownSpecInit /\ [][CooldownNext]_vars

\* ------------------------- URL.normalize and normalize_url, on their own
\* A str or bytes value is a sequence of characters; a URL here is its path
\* and its query (host, port and scheme are copied unchanged by both)
MaxPathLen == 4

MaxQueryLen == 3

PathChars == {"/", "a"}

QueryChars == {"&", "a", "b"}

Strings(chars, n) == UNION {[1..k -> chars] : k \in 0..n}

\* A query of None
NoQuery == <<"None">>

\* The paths a parsed URL can have: not empty, starting with a slash
NormPaths == {s \in Strings(PathChars, MaxPathLen) : s # <<>> /\ s[1] = "/"}

\* The code point of a character
ord(c) == CASE c = "&" -> 38 [] c = "/" -> 47 [] c = "a" -> 97 [] c = "b" -> 98

\* s < t for str and for bytes
RECURSIVE str_lt(_, _)
str_lt(s, t) ==
    IF t = <<>> THEN FALSE
    ELSE IF s = <<>> THEN TRUE
    ELSE IF Head(s) # Head(t) THEN ord(Head(s)) < ord(Head(t))
    ELSE str_lt(Tail(s), Tail(t))

\* A strip that removes one trailing slash only
rstrip_one(s) ==
    IF s # <<>> /\ s[Len(s)] = "/" THEN SubSeq(s, 1, Len(s) - 1) ELSE s

\* s.rstrip("/")
RECURSIVE rstrip(_)
rstrip(s) ==
    IF s # <<>> /\ s[Len(s)] = "/" THEN rstrip(SubSeq(s, 1, Len(s) - 1)) ELSE s

\* s.split("&")
RECURSIVE split(_)
split(s) ==
    IF \A i \in 1..Len(s) : s[i] # "&" THEN <<s>>
    ELSE LET i == CHOOSE k \in 1..Len(s) :
                      s[k] = "&" /\ \A j \in 1..(k - 1) : s[j] # "&"
         IN  <<SubSeq(s, 1, i - 1)>> \o split(SubSeq(s, i + 1, Len(s)))

\* x put into the sorted list xs, after its equals
RECURSIVE insort(_, _)
insort(xs, x) ==
    IF xs = <<>> THEN <<x>>
    ELSE IF str_lt(x, Head(xs)) THEN <<x>> \o xs
    ELSE <<Head(xs)>> \o insort(Tail(xs), x)

\* sorted(xs)
RECURSIVE sorted(_)
sorted(xs) ==
    IF xs = <<>> THEN <<>>
    ELSE insort(sorted(SubSeq(xs, 1, Len(xs) - 1)), xs[Len(xs)])

\* "&".join(xs)
RECURSIVE join(_)
join(xs) ==
    IF xs = <<>> THEN <<>>
    ELSE IF Len(xs) = 1 THEN xs[1]
    ELSE xs[1] \o <<"&">> \o join(Tail(xs))

\* _DOUBLE_SLASH_REGEX.sub("/", s)
RECURSIVE sub_double_slash(_)
sub_double_slash(s) ==
    IF Len(s) < 2 THEN s
    ELSE IF s[1] = "/" /\ s[2] = "/" THEN sub_double_slash(Tail(s))
    ELSE <<s[1]>> \o sub_double_slash(Tail(s))

\* URL.normalize with a strip of one slash
URL_normalize_strip_one(u) ==
    [path  |-> IF rstrip_one(u.path) = <<>> THEN <<"/">> ELSE rstrip_one(u.path),
     query |-> IF u.query = NoQuery THEN NoQuery
               ELSE join(sorted(split(u.query)))]

\* URL.normalize
URL_normalize(u) ==
    [path  |-> IF rstrip(u.path) = <<>> THEN <<"/">> ELSE rstrip(u.path),
     query |-> IF u.query = NoQuery THEN NoQuery
               ELSE join(sorted(split(u.query)))]

\* httpx.URL.path: an empty path reads as "/"
httpx_path(u) == IF u.path = <<>> THEN <<"/">> ELSE u.path

\* httpx.URL.query: no query reads as b""
httpx_query(u) == IF u.query = NoQuery THEN <<>> ELSE u.query

\* Some response of the history is a redirect from this URL without its
\* trailing slash
redirected_to_slash(url, history) ==
    \E response \in history :
        /\ response.is_redirect
        /\ response.same_netloc
        /\ response.path \o <<"/">> = httpx_path(url)

\* normalize_url
normalize_url(url, history) ==
    LET stripped == IF ~redirected_to_slash(url, history)
                    THEN [url EXCEPT !.path = rstrip(httpx_path(url))]
                    ELSE url
        path == sub_double_slash(httpx_path(stripped))
        query == join(sorted(split(httpx_query(stripped))))
    IN  [path  |-> IF path = <<>> THEN <<"/">> ELSE path,
         query |-> IF query = <<>> THEN NoQuery ELSE query]

\* The URLs URL.normalize is called on: the query, if present, is not empty
ParsedURLs ==
    {[path |-> p, query |-> q] :
        p \in NormPaths,
        q \in {NoQuery} \cup (Strings(QueryChars, MaxQueryLen) \ {<<>>})}

\* The httpx URLs normalize_url is called on
HttpxURLs ==
    {[path |-> p, query |-> q] :
        p \in NormPaths, q \in {NoQuery} \cup Strings(QueryChars, MaxQueryLen)}

\* The history arguments: none (the default), or one response
Histories ==
    {{}} \cup {{[is_redirect |-> r, same_netloc |-> n, path |-> p]} :
                 r \in BOOLEAN, n \in BOOLEAN,
                 p \in {s \in NormPaths : Len(s) <= MaxPathLen - 1}}

NormInit ==
    /\ \/ norm_fn = "URL.normalize" /\ norm_url \in ParsedURLs /\ norm_history = {}
       \/ norm_fn = "normalize_url" /\ norm_url \in HttpxURLs
                                    /\ norm_history \in Histories
    /\ norm_once = <<>>
    /\ norm_twice = <<>>
    /\ npc = "start"

\* One call of the normalizer under study
Normalized(u) ==
    IF norm_fn = "URL.normalize" THEN URL_normalize(u)
    ELSE normalize_url(u, norm_history)

NormFirst ==
    /\ npc = "start"
    /\ norm_once' = Normalized(norm_url)
    /\ npc' = "once"
    /\ UNCHANGED <<norm_fn, norm_url, norm_history, norm_twice, norm_rest>>

NormSecond ==
    /\ npc = "once"
    /\ norm_twice' = Normalized(norm_once)
    /\ npc' = "twice"
    /\ UNCHANGED <<norm_fn, norm_url, norm_history, norm_once, norm_rest>>

NormNext == NormFirst \/ NormSecond

NormSpecInit == NormRestInit /\ NormInit

NormSpec == NormSpecInit /\ [][NormNext]_vars

\* ---------------------------------------------- URL.from_string, on its own
\* A component of a URIReference that is None
Absent == "None"

\* What rfc3986.URIReference.from_string splits a string into: the scheme,
\* host, port, path and query, each a str or None (an empty path reads as
\* None; a port and a non-empty userinfo need a host)
URIReferences ==
    {[scheme |-> s, host |-> h, port |-> p, path |-> pa, query |-> q] :
        s \in {Absent, "http", "HTTP", "https", "ftp", "javascript"},
        h \in {Absent, "", "foo.com", "Foo.COM"},
        p \in {Absent, "", "443", "80", "123"},
        pa \in {Absent, "/foo.html", "/foo%2a", "/%7Efoo", "/a/../b", "alert(1)"},
        q \in {Absent, "", "a=b"}}

FromStringInputs ==
    {u \in URIReferences :
        /\ u.host = Absent => u.port = Absent
        /\ u.host = "" => u.port # Absent
        /\ u.path = "alert(1)" => u.host = Absent}

\* str.lower on the schemes and hosts above
lower(s) ==
    CASE s = "HTTP" -> "http"
      [] s = "Foo.COM" -> "foo.com"
      [] OTHER -> s

\* rfc3986 normalize_path: dot segments removed, hex digits of an escape
\* in upper case
normalize_path(p) ==
    CASE p = "/foo%2a" -> "/foo%2A"
      [] p = "/a/../b" -> "/b"
      [] OTHER -> p

\* URIReference.normalize: scheme and host in lower case, an empty port
\* dropped, the path normalized
uri_normalize(u) ==
    [scheme |-> lower(u.scheme),
     host   |-> lower(u.host),
     port   |-> IF u.port = "" THEN Absent ELSE u.port,
     path   |-> normalize_path(u.path),
     query  |-> u.query]

\* quote(unquote(path)): an escaped unreserved character is decoded, an
\* escaped reserved one stays escaped
quote_unquote(p) ==
    CASE p = "/%7Efoo" -> "/~foo"
      [] OTHER -> p

\* int(port)
int(p) == CASE p = "443" -> 443 [] p = "80" -> 80 [] p = "123" -> 123

\* What a call gives: a URL, or an exception with its message
Returned(u) == [exc |-> "", msg |-> "", url |-> u]

Raises(e, m) == [exc |-> e, msg |-> m, url |-> <<>>]

\* URL.from_rfc3986_uri: a failed assert raises AssertionError with no
\* message
from_rfc3986_uri(u) ==
    LET n == uri_normalize(u) IN
    IF n.scheme = Absent THEN Raises("AssertionError", "")
    ELSE IF n.scheme \notin {"http", "https"} THEN Raises("AssertionError", "")
    ELSE IF n.host = Absent THEN Raises("AssertionError", "")
    ELSE IF n.host = "" THEN Raises("AssertionError", "")
    ELSE IF n.port = "" THEN Raises("AssertionError", "")
    ELSE IF n.path = "" THEN Raises("AssertionError", "")
    ELSE Returned([host  |-> n.host,
                   port  |-> IF n.port = Absent \/ n.port = "443"
                             THEN {} ELSE {int(n.port)},
                   path  |-> IF n.path = Absent THEN "/"
                             ELSE quote_unquote(n.path),
                   query |-> IF n.query = "" THEN Absent ELSE n.query])

\* URL.from_string, after rfc3986 has split the string
from_string(u) == from_rfc3986_uri(u)

ParseInit ==
    /\ uri \in FromStringInputs
    /\ from_string_result = <<>>
    /\ upc = "call"

ParseCall ==
    /\ upc = "call"
    /\ from_string_result' = from_string(uri)
    /\ upc' = "done"
    /\ UNCHANGED <<uri, parse_rest>>

ParseNext == ParseCall

ParseSpecInit == ParseRestInit /\ ParseInit

ParseSpec == ParseSpecInit /\ [][ParseNext]_vars

\* --------------------------------------------- the crawler to its shutdown
\* `await self.request(m, url)` raises an exception that neither except
\* clause of retrying_request names: it passes through _load_page and
\* worker, which catch nothing, and ends the task; the lines after the
\* await in worker are not run
RequestRaised(w) ==
    /\ UNCHANGED aux_vars
    /\ running = NoWorker
    /\ pc[w] \in {"head_io", "get_io"}
    /\ pc' = [pc EXCEPT ![w] = "raised"]
    /\ UNCHANGED <<pending_urls, active_urls, timeouts, stopping, table, store, now,
                   ticks, running, wurl, whead, rresp, rhost, rbudget, rframes,
                   fate, due>>

\* The states a worker task is done in: returned, or ended by an exception
Finished == {"done", "raised", "assertion_error", "integrity_error"}

\* `await asyncio.wait(workers)` has returned, every task being done; main
\* leaves the `async with` and calls pickle.dump(crawler, file)
MainDump ==
    /\ running = NoWorker
    /\ \A w \in Workers : pc[w] \in Finished
    /\ spc = "idle"
    /\ IF active_urls # {}
       THEN spc' = "runtime_error" /\ UNCHANGED <<state_pkl, original>>
       ELSE /\ state_pkl' = dumps(getstate(Self))
            /\ original' = <<Self>>
            /\ spc' = "dumped"
    /\ UNCHANGED <<crawler_vars, httpx_client, db_conn, table_client, proc,
                   fetch_vars, page_vars, cooldown_vars, norm_vars, parse_vars,
                   load_vars>>

ShutdownNext ==
    \/ NextUntimed
    \/ \E w \in Workers : RequestRaised(w)
    \/ MainDump

ShutdownSpec == Init /\ [][ShutdownNext]_vars

\* ------------------------------------------- one run of _load_page, whole
\* retrying_head or retrying_get returned None
NoPage == [status |-> 0, ctype |-> "absent", nofollow |-> FALSE, url |-> NoURL]

\* The robots entries can_fetch may answer from: allow_all, rules that
\* disallow /y, and disallow_all
LoadEntries ==
    (SnapEntries \ {NoEntry}) \cup {on_error(RobotsFile(1), "NetworkError")}

\* _load_page is called with a dispatched URL
LoadInit ==
    /\ load_url \in URLs
    /\ load_entry \in LoadEntries
    /\ load_rows \in SUBSET URLs
    /\ load_timeouts = [k \in {} |-> 0]
    /\ load_head = NoPage /\ load_get = NoPage
    /\ load_dom = "" /\ load_links = {}
    /\ lpc = "can_fetch"

\* `if not await self._robots_file_table.can_fetch(url): return set()`
LoadCanFetch ==
    /\ lpc = "can_fetch"
    /\ lpc' = IF can_fetch(load_entry, load_url) THEN "head" ELSE "returned"
    /\ UNCHANGED <<load_url, load_entry, load_rows, load_timeouts, load_head,
                   load_get, load_dom, load_links, load_rest>>

\* The HEAD: None, an invalid response or a url that has a row returns no
\* links; else the timeout is recorded under the response's netloc
LoadHead ==
    /\ lpc = "head"
    /\ \E r \in PageResponses(URLs) \cup {NoPage} :
        /\ load_head' = r
        /\ IF r = NoPage \/ ~is_valid_response(r, "HEAD") \/ exists(load_rows, r.url)
           THEN lpc' = "returned" /\ UNCHANGED load_timeouts
           ELSE /\ lpc' = "get"
                /\ LET t == table_timeout(load_entry, now) IN
                   load_timeouts' = IF t = {} THEN load_timeouts
                                    ELSE SetTimeout(load_timeouts, netloc(r.url),
                                                    CHOOSE v \in t : TRUE)
    /\ UNCHANGED <<load_url, load_entry, load_rows, load_get, load_dom, load_links,
                   load_rest>>

\* The GET: None, an invalid response or a url that has a row returns no
\* links
LoadGet ==
    /\ lpc = "get"
    /\ \E r \in PageResponses(URLs) \cup {NoPage} :
        /\ load_get' = r
        /\ lpc' = IF r = NoPage \/ ~is_valid_response(r, "GET")
                     \/ exists(load_rows, r.url)
                  THEN "returned" ELSE "parse"
    /\ UNCHANGED <<load_url, load_entry, load_rows, load_timeouts, load_head,
                   load_dom, load_links, load_rest>>

\* The parse, `if dom is None`, the language test, the insert and get_links
LoadParse ==
    /\ lpc = "parse"
    /\ \E d \in {"none"} \cup Langs :
        /\ load_dom' = d
        /\ IF d \notin {"de", "en"}
           THEN UNCHANGED <<load_rows, load_links>>
           ELSE /\ load_rows' = insert(load_rows, load_get.url)
                /\ load_links' \in SUBSET URLs
    /\ lpc' = "returned"
    /\ UNCHANGED <<load_url, load_entry, load_timeouts, load_head, load_get,
                   load_rest>>

LoadNext == LoadCanFetch \/ LoadHead \/ LoadGet \/ LoadParse

LoadSpecInit == LoadRestInit /\ LoadInit

LoadSpec == LoadSpecInit /\ [][LoadNext]_vars

\* ------------------------------------------------------------ the claims
Frontier == BucketItems(pending_urls)

Dispatched(u) == u \notin active_urls /\ u \in active_urls'

InFetch == {"head_io", "get_io"}

\* The coroutine has returned, or an exception has ended it
Ended == {"done", "assertion_error", "integrity_error"}

\* C1: the URLs in flight have pairwise distinct netlocs, so no worker ever
\* dispatches a URL of a netloc that is still in flight
C1_PerHostExclusion ==
    \A u, v \in active_urls : netloc(u) = netloc(v) => u = v

\* A worker waits although the frontier holds a URL whose netloc has no
\* timeout: the URL in flight on that netloc alone blocks it
C1_Witness ==
    /\ \E w \in Workers : pc[w] = "waiting"
    /\ \E u \in Frontier :
        /\ netloc(u) \in active_netlocs(active_urls)
        /\ netloc(u) \notin DOMAIN timeouts

\* C2: no URL is dispatched while its netloc has a timeout that lies in the
\* future; an entry whose time has passed does not block
C2_NoDispatchInCooldown ==
    [][\A u \in URLs :
         Dispatched(u) =>
            ~(netloc(u) \in DOMAIN timeouts /\ timeouts[netloc(u)] > now)]_vars

\* A worker waits although the frontier holds a URL whose netloc is not in
\* flight: the timeout alone blocks it
C2_Witness ==
    /\ \E w \in Workers : pc[w] = "waiting"
    /\ \E u \in Frontier :
        /\ netloc(u) \notin active_netlocs(active_urls)
        /\ netloc(u) \in DOMAIN timeouts
        /\ timeouts[netloc(u)] > now

\* C3: a dispatch whose fetch is redirected to another netloc sends no page
\* request to that netloc and stores no document
C3_CrossHostRedirectReenqueued ==
    [][\A w \in Workers :
         /\ (pc[w] = "head_io" /\ pc'[w] = "get_io")
                => netloc(whead'[w]) = netloc(wurl[w])
         /\ (pc[w] = "get_io" /\ pc'[w] # "get_io")
                => \A f \in store' \ store : netloc(f) = netloc(wurl[w])]_vars

\* C4: once a page of a netloc was admitted by can_fetch and requested, the
\* next dispatch on that netloc comes no sooner than the cooldown its
\* robots.txt asks for
C4_CooldownAfterAdmission ==
    [][\A u \in URLs : Dispatched(u) => now >= due[netloc(u)]]_vars

C7_MergeSkipsStored ==
    [][\A u \in URLs : (u \in Frontier' /\ u \notin Frontier) => u \notin store']_vars

\* C8 as claimed: no HEAD is sent for a URL that has a row, and no insert
\* meets a row
C8_CheckBeforeAnyRequest ==
    /\ [][\A w \in Workers :
            (pc[w] \notin InFetch /\ pc'[w] = "head_io") => wurl'[w] \notin store']_vars
    /\ [](\A w \in Workers : pc[w] # "integrity_error")

\* C8 amended: the store is asked after the HEAD, with the HEAD's final URL,
\* before the GET is sent, and after the GET, with its final URL, before the
\* insert: no GET goes to a URL that has a row and no insert meets a row
C8_CheckAfterHeadAndGet ==
    /\ [][\A w \in Workers :
            (pc[w] = "head_io" /\ pc'[w] = "get_io") => whead'[w] \notin store']_vars
    /\ [][store' # store =>
            /\ store \subseteq store' /\ Cardinality(store' \ store) = 1
            /\ \E w \in Workers : pc[w] = "get_io" /\ pc'[w] = "outer"]_vars
    /\ [](\A w \in Workers : pc[w] # "integrity_error")

\* A URL that has a row was dispatched again and skipped
C8_Witness ==
    \E u \in store : fate[u] = "skipped" /\ u \notin active_urls

RobotsDenied(entry, h) ==
    /\ entry.disallow_all
    /\ \A u \in URLs : netloc(u) = h => ~can_fetch(entry, u)

RobotsAllowed(entry, h) ==
    /\ entry.allow_all
    /\ \A u \in URLs : netloc(u) = h => can_fetch(entry, u)

\* C9 as claimed: 401, 403, 429, 5xx and a transport error all give
\* disallow_all, and can_fetch is false for every path of the host
C9_DenyClassification ==
    [][\A w \in Workers :
         (/\ pc[w] = "robots_got"
          /\ \/ rresp[w].exc \in TransportErrors
             \/ rresp[w].status \in {401, 403, 429}
             \/ rresp[w].status \in 500..599)
         => RobotsDenied(table'[rhost[w]], rhost[w])]_vars

\* C9 amended: 429, 5xx and a transport error give disallow_all; 401 and 403
\* give allow_all like the other client errors
C9_DenyClassificationAmended ==
    [][\A w \in Workers :
         /\ (/\ pc[w] = "robots_got"
             /\ \/ rresp[w].exc \in TransportErrors
                \/ rresp[w].status = 429
                \/ rresp[w].status \in 500..599)
            => RobotsDenied(table'[rhost[w]], rhost[w])
         /\ (/\ pc[w] = "robots_got"
             /\ rresp[w].exc = ""
             /\ rresp[w].status \in {401, 403})
            => RobotsAllowed(table'[rhost[w]], rhost[w])]_vars

\* A host's entry denies everything and a URL of the host was skipped
C9_Witness ==
    \E u \in URLs :
        /\ table[netloc(u)].disallow_all
        /\ fate[u] = "skipped"

\* C10: a client error other than 401, 403 and 429 gives allow_all, can_fetch
\* is true for every path of the host, and the entry stays until it has
\* expired and a new request replaces it
C10_AllowClassification ==
    /\ [][\A w \in Workers :
            (/\ pc[w] = "robots_got"
             /\ rresp[w].exc = ""
             /\ rresp[w].status \in (400..499) \ {401, 403, 429})
            => RobotsAllowed(table'[rhost[w]], rhost[w])]_vars
    /\ [][\A h \in Hosts :
            (table[h].allow_all /\ table'[h] # table[h])
            => expired(table[h], now) /\ table'[h] = RobotsFile(now)]_vars

\* A path the robots.txt body would disallow is requested under allow_all
C10_Witness ==
    \E w \in Workers :
        /\ pc[w] = "head_io"
        /\ wurl[w].path = "/y"
        /\ RobotsAllowed(table[netloc(wurl[w])], netloc(wurl[w]))

\* C11 as claimed: a robots.txt request that runs out of redirects gives
\* disallow_all, and can_fetch is false for every path of the host
C11_RedirectsExhaustedDenied ==
    [][\A w \in Workers :
         (pc[w] = "robots_got" /\ rresp[w].exc = "TooManyRedirects")
         => RobotsDenied(table'[rhost[w]], rhost[w])]_vars

\* C12: a can_fetch no later than 24 h after the entry's stamp answers from
\* the table and requests nothing; a later one puts a new entry for the
\* host in the table and requests robots.txt; the entry is the host's,
\* whatever the path
C12_CacheTTL ==
    [][\A w \in Workers :
         (pc[w] = "load" /\ pc'[w] # "load") =>
            LET h == netloc(wurl[w]) IN
            IF table[h].present /\ now <= table[h].mtime + RobotsTTL
            THEN table' = table /\ pc'[w] # "robots_io"
            ELSE /\ pc'[w] = "robots_io"
                 /\ rhost'[w] = h
                 /\ table' = [table EXCEPT ![h] = RobotsFile(now)]]_vars

\* can_fetch is called for a host whose entry is older than 24 h
C12_Witness ==
    \E w \in Workers :
        /\ pc[w] = "load"
        /\ table[netloc(wurl[w])].present
        /\ now > table[netloc(wurl[w])].mtime + RobotsTTL

\* C17: once the stop flag is set no URL leaves the frontier and none enters
\* the in-flight set
C17_NoDispatchAfterStop ==
    [][stopping => (Frontier \subseteq Frontier' /\ active_urls' \subseteq active_urls)]_vars

\* Every worker has returned after stop() although the frontier holds a URL
\* that a scan would dispatch
C17_Witness ==
    /\ stopping
    /\ \A w \in Workers : pc[w] = "done"
    /\ Eligible(pending_urls, active_urls, timeouts, now) # {}

\* C13: a call makes at most two requests; a second request is made exactly
\* when the first failed with a transient error, and after one sleep; a
\* response of either request is what the call returns; two transient
\* failures make it return None
C13_RetryBudget ==
    /\ Len(attempts) <= 2
    /\ Len(attempts) = 2 => (attempts[1].exc \in Transient /\ sleeps >= 1)
    /\ fpc = "returned" =>
        /\ attempts # <<>>
        /\ attempts[1].exc \in Transient => Len(attempts) = 2
        /\ attempts[Len(attempts)].exc = "" => ret = attempts[Len(attempts)]
        /\ (\A i \in 1..Len(attempts) : attempts[i].exc \in Transient) =>
              (Len(attempts) = 2 /\ ret = None)

\* The first request timed out and the second one's response was returned
C13_Witness ==
    /\ fpc = "returned"
    /\ Len(attempts) = 2
    /\ attempts[1].exc = "TimeoutException"
    /\ ret = Outcome("", 200)

\* C14: a fatal error is the last thing a call sees: the call has returned
\* None, with no sleep and no request after it, on the first attempt as on
\* the second
C14_FatalReturnsAtOnce ==
    \A i \in 1..Len(attempts) :
        attempts[i].exc \in Fatal =>
            /\ i = Len(attempts)
            /\ fpc = "returned"
            /\ ret = None
            /\ sleeps = i - 1

\* The first request hit a network error and the second a TLS error
C14_Witness ==
    /\ Len(attempts) = 2
    /\ attempts[1].exc = "NetworkError"
    /\ attempts[2].exc = "SSLError"
    /\ fpc = "returned"

\* C15 as claimed: a response whose Content-Language header names neither en
\* nor de is skipped with its body unparsed and nothing stored
C15_ContentLanguageGuard ==
    get_response.clang \in {"fr"} =>
        /\ ~parsed
        /\ presult # "stored"
        /\ get_response.url \notin store

DelayOf(entry) == IF entry.crawl_delay = {} THEN 0 ELSE CHOOSE d \in entry.crawl_delay : TRUE

RateZero(entry) == \E r \in entry.request_rate : r.seconds = 0 \/ r.requests = 0

\* C18 as claimed: the call gives now + max(crawl_delay, 1/request_rate), and
\* None when crawl_delay and request_rate are both absent or zero; it never
\* raises
C18_CooldownValue ==
    cpc = "done" =>
        /\ cooldown.exc = ""
        /\ IF DelayOf(robots_file) = 0 /\ (robots_file.request_rate = {} \/ RateZero(robots_file))
           THEN cooldown = NoneValue
           ELSE ~RateZero(robots_file) =>
                  \E inv \in 0..7 :
                     /\ \/ robots_file.request_rate = {} /\ inv = 0
                        \/ \E r \in robots_file.request_rate : inv * r.requests = r.seconds
                     /\ cooldown = Value(now + Max(DelayOf(robots_file), inv))

\* C19: canonicalization is idempotent. Normalizing an already normalized
\* URL changes nothing, for URL.normalize and for normalize_url as the
\* frontier insertions call it (with no history)
C19_Idempotent ==
    (npc = "twice" /\ norm_history = {}) => norm_twice = norm_once

\* A URL with trailing slashes and unsorted query tokens went through
\* normalize_url twice
C19_Witness ==
    /\ npc = "twice"
    /\ norm_fn = "normalize_url"
    /\ norm_history = {}
    /\ norm_url = [path |-> <<"/", "a", "/", "/">>, query |-> <<"b", "&", "a">>]
    /\ norm_once = [path |-> <<"/", "a">>, query |-> <<"a", "&", "b">>]

\* C20: URL parse errors are typed. Every input from_string rejects is
\* rejected with an InvalidURLError whose kind is scheme, host or port; a
\* missing scheme or one other than http/https gives kind scheme, and an
\* empty host gives kind host
C20_TypedParseErrors ==
    (upc = "done" /\ from_string_result.exc # "") =>
        /\ from_string_result.exc = "InvalidURLError"
        /\ from_string_result.msg \in {"scheme", "host", "port"}
        /\ lower(uri.scheme) \notin {"http", "https"} =>
               from_string_result.msg = "scheme"
        /\ (lower(uri.scheme) \in {"http", "https"} /\ uri.host \in {Absent, ""}) =>
               from_string_result.msg = "host"

\* Netloc.__str__: the host, and the port after a colon when there is one
Netloc_str(host, port) ==
    IF port = {} THEN <<host>>
    ELSE <<host, ":", CHOOSE p \in port : TRUE>>

\* URL.__str__: always https, then the netloc and the target
URL_str(u) ==
    <<"https://">> \o Netloc_str(u.host, u.port)
        \o (IF u.query = Absent THEN <<u.path>> ELSE <<u.path, "?", u.query>>)

\* C21: default ports are dropped. Parsing a URL with port 80 or 443 gives
\* a URL with no port, in its host key and in its rendering; any other
\* port is kept; the rendering always uses https
C21_DefaultPortsDropped ==
    (upc = "done" /\ from_string_result.exc = "") =>
        LET u == from_string_result.url IN
        /\ uri.port \in {"80", "443"} =>
               u.port = {} /\ URL_str(u)[3] # ":"
        /\ uri.port = "123" => u.port = {123} /\ URL_str(u)[4] = 123
        /\ URL_str(u)[1] = "https://"

\* C22: progress without stop. Whenever the frontier holds a URL whose
\* netloc is not in flight and has no running cooldown, some worker
\* eventually dispatches a URL (a dispatch is the step into _load_page)
C22_Progress ==
    (~stopping /\ Eligible(pending_urls, active_urls, timeouts, now) # {})
        ~> (\E w \in Workers : pc[w] = "load")

\* C23: the frontier and the in-flight set are disjoint in every reachable
\* state: a dispatch takes the URL out of the frontier as it marks it in
\* flight, and a merge inserts no link that is in flight
C23_FrontierInFlightDisjoint ==
    /\ [](Frontier \cap active_urls = {})
    /\ [][\A u \in URLs : Dispatched(u) => u \in Frontier /\ u \notin Frontier']_vars
    /\ [][\A u \in URLs : (u \in Frontier' /\ u \notin Frontier) => u \notin active_urls]_vars

\* A page was stored and its links merged while another URL is in flight
\* and the frontier is not empty
C23_Witness ==
    /\ Frontier # {}
    /\ \E w \in Workers : pc[w] = "get_io" /\ wurl[w] \in active_urls
    /\ \E u \in URLs : fate[u] = "stored"

\* C24: no duplicate insert under concurrency. Whatever the interleaving of
\* the workers, no insert is executed for a URL that has a row (sqlite
\* would raise IntegrityError on the primary key); rows are never taken
\* away, so each URL is inserted at most once
C24_NoDuplicateInsert ==
    /\ [](\A w \in Workers : pc[w] # "integrity_error")
    /\ [][store \subseteq store' /\ Cardinality(store' \ store) <= 1]_vars

\* Two fetches end at the same URL: a worker's GET is outstanding for a URL
\* that the other worker has stored since the HEAD
C24_Witness ==
    \E w \in Workers :
        pc[w] = "get_io" /\ whead[w] \in store /\ wurl[w] \in active_urls

\* C25: the snapshot is writable at shutdown. Whenever every worker task
\* has finished nothing is in flight, so __getstate__ does not raise and
\* the frontier, the robots table and the cooldown map are written
C25_SnapshotWritable ==
    /\ []((\A w \in Workers : pc[w] \in Finished) => active_urls = {})
    /\ [](spc # "runtime_error")
    /\ [](spc = "dumped" =>
            /\ state_pkl[1].entries = table
            /\ state_pkl[2] = pending_urls
            /\ state_pkl[3] = timeouts)

\* The run passed every stage: robots allowed the dispatched URL, the GET
\* response is 2xx, text/html and without nofollow, the DOM is there and
\* its language is en or de
Accepted ==
    /\ can_fetch(load_entry, load_url)
    /\ load_get # NoPage
    /\ is_success(load_get.status)
    /\ load_get.ctype = "text/html"
    /\ ~load_get.nofollow
    /\ load_dom \in {"en", "de"}

\* C26: every row of the document store was written by a run that passed
\* every stage, under the GET's final url; a run that fails a stage stores
\* nothing and returns no links
C26_StoreAcceptance ==
    /\ [][load_rows' # load_rows =>
            Accepted' /\ load_rows' = load_rows \cup {load_get.url}]_vars
    /\ [][(lpc' = "returned" /\ ~Accepted') =>
            load_rows' = load_rows /\ load_links' = {}]_vars
    /\ []((lpc = "returned" /\ ~Accepted) => load_links = {})

\* A page was stored under a final url other than the dispatched one and
\* links came back
C26_Witness ==
    /\ lpc = "returned"
    /\ Accepted
    /\ load_get.url \in load_rows
    /\ load_get.url # load_url
    /\ load_links # {}

====
